---------------------------- MODULE Spec2Model ----------------------------
(***************************************************************************)
(* A model of examples/statsd.py: the module-level statsd helpers          *)
(* (set_server, timing, gauge, increment, decrement, update_stats, send),  *)
(* the ServerContext context manager and the Statsd wrapper class.         *)
(*                                                                         *)
(* Python strings are sequences of one-character strings, so that the      *)
(* "%d" / "%s" formatting is computed digit by digit and a payload can be  *)
(* parsed back.  A dict is a function whose domain is its key set; the     *)
(* order of dict.keys() is not fixed by the source and is drawn by the     *)
(* caller of the action.  A sample rate is a number of tenths (5 is 0.5,   *)
(* 10 is the int 1), and so is the value drawn by random.random().         *)
(* The source is Python 2 (sendto takes the str payload as it is).          *)
(***************************************************************************)
EXTENDS Integers, Sequences, FiniteSets, TLC

(* ------------------------------ bounds -------------------------------- *)

\* longest list of names handed to increment / decrement / update_stats
MaxBatch == 2
\* deepest nesting of user-written `with ServerContext(...)` blocks
MaxDepth == 2
\* number of threads of the concurrent specification
NThreads == 2

(* --------------------------- program constants ------------------------ *)

DefaultPort == 8125

DefaultAddr == <<"localhost", DefaultPort>>

(* ------------------------------ input sets ---------------------------- *)

Threads == 1..NThreads

Names == { <<"x">>, <<"a", ".", "b">> }

Values == {-3, 0, 250}

\* sample rates in tenths: 0.5, 1 and 2
Rates == {5, 10, 20}

\* random.random() in tenths: below, at and above the rate 0.5
Draws == {2, 5, 8}

\* a host for which name resolution fails at every sendto
MalformedHosts == {"bad host"}

ServerArgs == { <<"example.com", DefaultPort>>, <<"bad host", 8126>> }

ClientArgs == { <<"other.example.com", 2222>>, <<"third.example.com", DefaultPort>> }

\* Python's None where an address is expected
None == <<"None", 0>>

(* ------------------------------ strings ------------------------------- *)

Digits == <<"0", "1", "2", "3", "4", "5", "6", "7", "8", "9">>

RECURSIVE NatToStr(_)
NatToStr(n) ==
    IF n < 10 THEN <<Digits[n + 1]>>
    ELSE NatToStr(n \div 10) \o <<Digits[(n % 10) + 1]>>

\* str() of a Python int
IntToStr(n) == IF n < 0 THEN <<"-">> \o NatToStr(-n) ELSE NatToStr(n)

\* "%d" % v for an int v
FormatDNoSign(v) == NatToStr(IF v < 0 THEN -v ELSE v)

FormatD(v) == IntToStr(v)

\* "%s" % r for a sample rate of r tenths: an int when whole, else a float
FormatRate(r) ==
    IF r % 10 = 0 THEN IntToStr(r \div 10)
    ELSE IntToStr(r \div 10) \o <<".">> \o <<Digits[(r % 10) + 1]>>

Range(s) == { s[i] : i \in DOMAIN s }

(* ------------------------------- dicts -------------------------------- *)

EmptyDict == [k \in {} |-> <<>>]

DictSet(d, k, v) == [x \in (DOMAIN d) \cup {k} |-> IF x = k THEN v ELSE d[x]]

\* the orders in which dict.keys() may list the keys of d
KeyOrders(d) ==
    { s \in [1..Cardinality(DOMAIN d) -> DOMAIN d] :
        \A i, j \in DOMAIN s : s[i] = s[j] => i = j }

(* --------------------------- metric formatting ------------------------ *)

\* timing: stats[stat] = "%d|ms" % time
TimingData(stat, time) == DictSet(EmptyDict, stat, FormatD(time) \o <<"|", "m", "s">>)

\* gauge: stats[stat] = "%d|g" % value
GaugeData(stat, value) == DictSet(EmptyDict, stat, FormatD(value) \o <<"|", "g">>)

\* update_stats: if type(stats) is not list: stats = [stats]
\* (an argument is [list, v]: v is the list when list holds, else v[1] is the
\* single name given)
AsList(stats) == IF stats.list THEN stats.v ELSE <<stats.v[1]>>

RECURSIVE CounterLoop(_, _, _)
CounterLoop(names, delta, data) ==
    IF names = <<>> THEN data
    ELSE CounterLoop(Tail(names), delta,
                     DictSet(data, Head(names), IntToStr(delta) \o <<"|", "c">>))

UpdateStatsDataFirstOnly(stats, delta) ==
    IF AsList(stats) = <<>> THEN EmptyDict
    ELSE CounterLoop(<<Head(AsList(stats))>>, delta, EmptyDict)

\* update_stats: for stat in stats: data[stat] = "%s|c" % delta
UpdateStatsData(stats, delta) == CounterLoop(AsList(stats), delta, EmptyDict)

(* ------------------------------- sampling ----------------------------- *)

\* send, lines 108-110: for stat in data.keys(): value = sampled_data[stat]; ...
\* A key missing from sampled_data raises KeyError.
RECURSIVE SampleLoop(_, _, _)
SampleLoop(keys, sampled, rate) ==
    IF keys = <<>> THEN [exc |-> FALSE, sampled |-> sampled]
    ELSE IF Head(keys) \notin DOMAIN sampled THEN [exc |-> TRUE, sampled |-> sampled]
    ELSE SampleLoop(Tail(keys),
                    DictSet(sampled, Head(keys),
                            sampled[Head(keys)] \o <<"|", "@">> \o FormatRate(rate)),
                    rate)

\* send, lines 104-112
Sample(data, rate, draw, order) ==
    IF rate < 10
    THEN IF draw <= rate
         THEN SampleLoop(order, EmptyDict, rate)
         ELSE [exc |-> FALSE, sampled |-> EmptyDict]
    ELSE [exc |-> FALSE, sampled |-> data]

\* send, line 118: send_data = "%s:%s" % (stat, value)
SendData(stat, value) == stat \o <<":">> \o value

(* ----------------------------- destinations --------------------------- *)

SetServerAddrNoPort(host, port) == <<host, DefaultPort>>

\* set_server: addr = (host, port)
SetServerAddr(host, port) == <<host, port>>

\* Statsd.__init__: self.addr = host, port
StatsdInit(host, port) == <<host, port>>

EnterAddrKeep(ctxAddr, current) == current

\* ServerContext.__enter__: addr = self.addr
EnterAddr(ctxAddr, current) == ctxAddr

ExitAddrKeep(savedAddr, current) == current

ExitAddrDefault(savedAddr, current) == DefaultAddr

\* ServerContext.__exit__: addr = self.saved
ExitAddr(savedAddr, current) == savedAddr

\* the module-level functions
ModuleOps == {"timing", "gauge", "increment", "decrement", "update_stats", "send"}

\* the attributes of class Statsd that _wrap defines
StatsdMethods == {"timing", "increment", "decrement", "update_stats", "send"}

(* ------------------------------- inputs ------------------------------- *)

\* increment: update_stats(stats, 1, sample_rate)
IncrementDelta == 1

\* decrement: update_stats(stats, -1, sample_rate)
DecrementDelta == -1

\* a single name, or a list of at most MaxBatch names
StatsInputs ==
    { [list |-> FALSE, v |-> <<n>>] : n \in Names }
    \cup { [list |-> TRUE, v |-> l] : l \in UNION { [1..n -> Names] : n \in 0..MaxBatch } }

NoStats == [list |-> TRUE, v |-> <<>>]

\* batches a caller hands to send directly
SendBatches ==
    { EmptyDict,
      DictSet(DictSet(EmptyDict, <<"x">>, <<"2", "5", "0", "|", "m", "s">>),
              <<"a", ".", "b">>, <<"7", "|", "g">>) }

Inputs ==
    { [op |-> o, stats |-> [list |-> FALSE, v |-> <<n>>], val |-> v, batch |-> EmptyDict] :
        o \in {"timing", "gauge"}, n \in Names, v \in Values }
    \cup { [op |-> "increment", stats |-> s, val |-> IncrementDelta, batch |-> EmptyDict] :
             s \in StatsInputs }
    \cup { [op |-> "decrement", stats |-> s, val |-> DecrementDelta, batch |-> EmptyDict] :
             s \in StatsInputs }
    \cup { [op |-> "update_stats", stats |-> s, val |-> v, batch |-> EmptyDict] :
             s \in StatsInputs, v \in Values }
    \cup { [op |-> "send", stats |-> NoStats, val |-> 0, batch |-> b] : b \in SendBatches }

\* the inputs of the concurrent specification
ConcInputs ==
    { in \in Inputs : in.op = "increment" /\ ~in.stats.list /\ in.stats.v = <<<<"x">>>> }

\* the inputs of the specification with user-written scopes
NestInputs == { in \in Inputs : in.op = "increment" /\ in.stats.v = <<<<"x">>>> }

\* the mapping the operation hands to send
DataOf(in) ==
    CASE in.op = "timing" -> TimingData(in.stats.v[1], in.val)
      [] in.op = "gauge" -> GaugeData(in.stats.v[1], in.val)
      [] in.op \in {"increment", "decrement", "update_stats"} -> UpdateStatsData(in.stats, in.val)
      [] OTHER -> in.batch

\* random.random() is called only when sample_rate < 1
DrawsFor(rate) == IF rate < 10 THEN Draws ELSE {0}

\* the ServerContext objects a caller holds and may enter, even twice
UserCtxs == {"ctxA", "ctxB"}

\* ServerContext.__init__: self.addr = addr
CtxAddr(c) ==
    IF c = "ctxA" THEN <<"other.example.com", 2222>> ELSE <<"example.com", DefaultPort>>

(* -------------------------------- state ------------------------------- *)

VARIABLES
    addr,       \* the module global `addr`
    pc,         \* per thread: where it is in its current call
    call,       \* per thread: its current (or last) call and what it did
    saved,      \* per thread: self.saved of the ServerContext of its client call
    stack,      \* the user-entered ServerContext objects, innermost last
    ctxSaved,   \* self.saved of each user-held ServerContext object
    hist        \* history: the configured default, and the client calls in
                \* progress since addr was last touched by nothing else

vars == <<addr, pc, call, saved, stack, ctxSaved, hist>>

NoCall ==
    [kind |-> "none", op |-> "none", stats |-> NoStats, val |-> 0, rate |-> 10,
     draw |-> 0, dest |-> None, data |-> EmptyDict, queue |-> <<>>, att |-> <<>>,
     exc |-> "none", logged |-> 0, entry |-> None, left |-> None]

NewCall(kind, in, rate, draw, dest, entry) ==
    [kind |-> kind, op |-> in.op, stats |-> in.stats, val |-> in.val, rate |-> rate,
     draw |-> draw, dest |-> dest, data |-> DataOf(in), queue |-> <<>>, att |-> <<>>,
     exc |-> "none", logged |-> 0, entry |-> entry, left |-> None]

\* the module as imported: addr = "localhost", 8125
Init ==
    /\ addr = DefaultAddr
    /\ pc = [t \in Threads |-> "idle"]
    /\ call = [t \in Threads |-> NoCall]
    /\ saved = [t \in Threads |-> None]
    /\ stack = <<>>
    /\ ctxSaved = [c \in UserCtxs |-> None]
    /\ hist = [dflt |-> DefaultAddr, base |-> None, dests |-> {}, overlap |-> FALSE]

\* the threads inside a Statsd client call (from __enter__ to __exit__)
ActiveClients ==
    { t \in Threads : call[t].kind = "client" /\ pc[t] \in {"install", "body", "send", "exit"} }

\* set_server: a new configured default; the run of scopes is forgotten
HistOnSetServer(a) == [dflt |-> a, base |-> None, dests |-> {}, overlap |-> FALSE]

\* a client call is entered: the first of a run records addr as the run's
\* base, a later one overlaps the calls still in progress
HistOnEnter(dest) ==
    IF ActiveClients # {}
    THEN [hist EXCEPT !.dests = @ \cup {dest}, !.overlap = TRUE]
    ELSE [hist EXCEPT !.base = addr, !.dests = {dest}, !.overlap = FALSE]

(* ------------------------------- actions ------------------------------ *)

\* set_server(host, port)
SetServer(t, host, port) ==
    /\ pc[t] = "idle"
    /\ addr' = SetServerAddr(host, port)
    /\ hist' = HistOnSetServer(<<host, port>>)
    /\ UNCHANGED <<pc, call, saved, stack, ctxSaved>>

\* send, lines 104-116: sample, create the socket, list the keys to send
StartSend(c, sockOk, order) ==
    LET s == Sample(c.data, c.rate, c.draw, order) IN
    IF s.exc THEN [c EXCEPT !.exc = "KeyError"]
    ELSE IF ~sockOk THEN [c EXCEPT !.exc = "socket.error"]
    ELSE [c EXCEPT !.queue = SelectSeq(order, LAMBDA k : k \in DOMAIN s.sampled)]

\* a module-level timing / gauge / increment / decrement / update_stats / send,
\* up to the first sendto
ModuleCall(t, in, rate, draw, sockOk, order) ==
    /\ pc[t] = "idle"
    /\ in.op \in ModuleOps
    /\ LET c == StartSend(NewCall("module", in, rate, draw, None, addr), sockOk, order) IN
         /\ call' = [call EXCEPT ![t] = c]
         /\ pc' = [pc EXCEPT ![t] = IF c.queue = <<>> THEN "done" ELSE "send"]
    /\ UNCHANGED <<addr, saved, stack, ctxSaved, hist>>

\* send, lines 116-121: one udp_sock.sendto(send_data, addr); a failure is
\* caught outside the loop, logged, and ends the call
SendTo(t, ok) ==
    /\ pc[t] = "send"
    /\ ok => addr[1] \notin MalformedHosts
    /\ LET c == call[t]
           stat == Head(c.queue)
           a == [payload |-> SendData(stat, c.data[stat]), to |-> addr, ok |-> ok,
                 dflt |-> hist.dflt]
           rest == IF ok THEN Tail(c.queue) ELSE <<>>
       IN
         /\ call' = [call EXCEPT ![t] = [c EXCEPT !.att = Append(@, a),
                                                  !.queue = rest,
                                                  !.logged = IF ok THEN @ ELSE @ + 1]]
         /\ pc' = [pc EXCEPT ![t] = IF rest # <<>> THEN "send"
                                    ELSE IF c.kind = "client" THEN "exit" ELSE "done"]
    /\ UNCHANGED <<addr, saved, stack, ctxSaved, hist>>

\* Statsd(host, port).<op>(...): the attribute lookup, then
\* ServerContext.__enter__, line 131: self.saved = addr
ClientCall(t, host, port, in, rate) ==
    /\ pc[t] = "idle"
    /\ IF in.op \notin StatsdMethods
       THEN /\ call' = [call EXCEPT ![t] =
                          [NewCall("client", in, rate, 0, StatsdInit(host, port), addr)
                             EXCEPT !.exc = "AttributeError"]]
            /\ pc' = [pc EXCEPT ![t] = "done"]
            /\ UNCHANGED <<saved, hist>>
       ELSE /\ call' = [call EXCEPT ![t] =
                          NewCall("client", in, rate, 0, StatsdInit(host, port), addr)]
            /\ saved' = [saved EXCEPT ![t] = addr]
            /\ pc' = [pc EXCEPT ![t] = "install"]
            /\ hist' = HistOnEnter(StatsdInit(host, port))
    /\ UNCHANGED <<addr, stack, ctxSaved>>

\* ServerContext.__enter__, line 132: addr = self.addr
ClientInstall(t) ==
    /\ pc[t] = "install"
    /\ addr' = EnterAddr(call[t].dest, addr)
    /\ pc' = [pc EXCEPT ![t] = "body"]
    /\ UNCHANGED <<call, saved, stack, ctxSaved, hist>>

\* wrapped, line 152: f(*args, **kwargs), up to the first sendto
ClientBody(t, draw, sockOk, order) ==
    /\ pc[t] = "body"
    /\ LET c == StartSend([call[t] EXCEPT !.draw = draw], sockOk, order) IN
         /\ call' = [call EXCEPT ![t] = c]
         /\ pc' = [pc EXCEPT ![t] = IF c.queue = <<>> THEN "exit" ELSE "send"]
    /\ UNCHANGED <<addr, saved, stack, ctxSaved, hist>>

\* ServerContext.__exit__, line 135: addr = self.saved; it returns None, so
\* an exception of the wrapped call goes on to the caller
ClientExit(t) ==
    /\ pc[t] = "exit"
    /\ addr' = ExitAddr(saved[t], addr)
    /\ call' = [call EXCEPT ![t].left = addr']
    /\ pc' = [pc EXCEPT ![t] = "done"]
    /\ UNCHANGED <<saved, stack, ctxSaved, hist>>

\* the call returns, or raises call[t].exc, to its caller
Return(t) ==
    /\ pc[t] = "done"
    /\ pc' = [pc EXCEPT ![t] = "idle"]
    /\ call' = [call EXCEPT ![t] = NoCall]
    /\ saved' = [saved EXCEPT ![t] = None]
    /\ UNCHANGED <<addr, stack, ctxSaved, hist>>

\* with ctx: ServerContext.__enter__ of a user-held object
UserEnter(t, c) ==
    /\ pc[t] = "idle"
    /\ Len(stack) < MaxDepth
    /\ ctxSaved' = [ctxSaved EXCEPT ![c] = addr]
    /\ addr' = EnterAddr(CtxAddr(c), addr)
    /\ stack' = Append(stack, c)
    /\ UNCHANGED <<pc, call, saved, hist>>

\* the end of the innermost with block: ServerContext.__exit__
UserExit(t) ==
    /\ pc[t] = "idle"
    /\ stack # <<>>
    /\ addr' = ExitAddr(ctxSaved[stack[Len(stack)]], addr)
    /\ stack' = SubSeq(stack, 1, Len(stack) - 1)
    /\ UNCHANGED <<pc, call, saved, ctxSaved, hist>>

(* ---------------------------- specifications -------------------------- *)

Calls(t, ins, rates, oks) ==
    \/ \E in \in ins, rate \in rates, sockOk \in oks :
         \E draw \in DrawsFor(rate), order \in KeyOrders(DataOf(in)) :
           ModuleCall(t, in, rate, draw, sockOk, order)
    \/ \E ok \in oks : SendTo(t, ok)
    \/ \E a \in ClientArgs, in \in ins, rate \in rates : ClientCall(t, a[1], a[2], in, rate)
    \/ ClientInstall(t)
    \/ \E sockOk \in oks :
         \E draw \in DrawsFor(call[t].rate), order \in KeyOrders(call[t].data) :
           ClientBody(t, draw, sockOk, order)
    \/ ClientExit(t)
    \/ Return(t)

\* one thread using the public API
Next ==
    \/ \E a \in ServerArgs : SetServer(1, a[1], a[2])
    \/ Calls(1, Inputs, Rates, BOOLEAN)

Spec == Init /\ [][Next]_vars

\* one thread that also writes its own, possibly nested, with ServerContext blocks
NextNest ==
    \/ \E a \in ServerArgs : SetServer(1, a[1], a[2])
    \/ Calls(1, NestInputs, Rates, BOOLEAN)
    \/ \E c \in UserCtxs : UserEnter(1, c)
    \/ UserExit(1)

SpecNest == Init /\ [][NextNest]_vars

\* NThreads threads making module-level and client calls, interleaved at every
\* access to addr, with no set_server meanwhile; the transport does not fail
\* and nothing is sampled
NextConc == \E t \in Threads : Calls(t, ConcInputs, {10}, {TRUE})

SpecConc == Init /\ [][NextConc]_vars

(* ----------------------- reading a payload back ----------------------- *)

\* the first place of character ch in string p (0 when there is none)
IndexOf(p, ch) ==
    IF \E i \in DOMAIN p : p[i] = ch
    THEN CHOOSE i \in DOMAIN p : p[i] = ch /\ \A j \in 1..(i - 1) : p[j] # ch
    ELSE 0

\* <name>:<value>|<suffix>
NamePart(p) == SubSeq(p, 1, IndexOf(p, ":") - 1)

ValuePart(p) == SubSeq(p, IndexOf(p, ":") + 1, IndexOf(p, "|") - 1)

SuffixPart(p) == SubSeq(p, IndexOf(p, "|") + 1, Len(p))

DigitValue(ch) == CHOOSE d \in 0..9 : Digits[d + 1] = ch

RECURSIVE ParseNat(_)
ParseNat(ds) ==
    IF ds = <<>> THEN 0
    ELSE 10 * ParseNat(SubSeq(ds, 1, Len(ds) - 1)) + DigitValue(ds[Len(ds)])

ParseInt(ds) == IF ds # <<>> /\ ds[1] = "-" THEN 0 - ParseNat(Tail(ds)) ELSE ParseNat(ds)

WellFormed(p) ==
    /\ IndexOf(p, ":") > 1
    /\ IndexOf(p, "|") > IndexOf(p, ":") + 1
    /\ \A i \in DOMAIN ValuePart(p) :
         ValuePart(p)[i] \in Range(Digits) \/ (i = 1 /\ ValuePart(p)[i] = "-")

\* the number of attempts of call c whose payload is p
Sent(c, p) == Cardinality({ i \in DOMAIN c.att : c.att[i].payload = p })

\* call c got through send with every sendto succeeding
NoTransportFailure(c) == c.exc = "none" /\ c.logged = 0

Finished(t) == pc[t] = "done" /\ call[t].exc # "AttributeError"

ApiOps == {"timing", "gauge", "increment", "decrement", "update_stats"}

CounterOps == {"increment", "decrement", "update_stats"}

(* -------------------------------- claims ------------------------------ *)

\* C1: no metric-emission call, module-level or through a Statsd client,
\* ever raises to its caller, whatever the batch, the sample rate, the random
\* draw and the transport do.
C1_NeverRaises == \A t \in Threads : call[t].exc = "none"

\* C2: with sample rate r < 1 and a non-empty batch, and the transport
\* working, a draw <= r transmits every entry once as <name>:<value>|@<r>
\* and a draw > r transmits nothing.
C2_SampledBatch ==
    \A t \in Threads :
      LET c == call[t] IN
      (Finished(t) /\ c.rate < 10 /\ DOMAIN c.data # {}
         /\ c.exc # "socket.error" /\ c.logged = 0)
      => IF c.draw <= c.rate
         THEN /\ Len(c.att) = Cardinality(DOMAIN c.data)
              /\ \A k \in DOMAIN c.data :
                   Sent(c, SendData(k, c.data[k] \o <<"|", "@">> \o FormatRate(c.rate))) = 1
         ELSE c.att = <<>>

\* C3: with sample rate >= 1 and no transport failure every entry of the
\* batch is transmitted exactly once, with no |@ suffix; for update_stats,
\* increment and decrement each name given (a single name counting as a
\* one-element list, a repeated name as one name) gets exactly one datagram
\* <name>:<delta>|c with the call's delta, and nothing else is sent.
C3_EveryMetricOnce ==
    \A t \in Threads :
      LET c == call[t] IN
      (Finished(t) /\ c.rate >= 10 /\ NoTransportFailure(c))
      => /\ Len(c.att) = Cardinality(DOMAIN c.data)
         /\ \A k \in DOMAIN c.data : Sent(c, SendData(k, c.data[k])) = 1
         /\ \A i \in DOMAIN c.att : IndexOf(c.att[i].payload, "@") = 0
         /\ c.op \in CounterOps =>
              LET given == IF c.stats.list THEN Range(c.stats.v) ELSE {c.stats.v[1]}
                  delta == CASE c.op = "increment" -> 1
                             [] c.op = "decrement" -> -1
                             [] OTHER -> c.val
                  right(p) == /\ WellFormed(p)
                              /\ ParseInt(ValuePart(p)) = delta
                              /\ SuffixPart(p) = <<"c">>
              IN /\ \A n \in given :
                      Cardinality({ i \in DOMAIN c.att :
                                      /\ NamePart(c.att[i].payload) = n
                                      /\ right(c.att[i].payload) }) = 1
                 /\ \A i \in DOMAIN c.att :
                      /\ NamePart(c.att[i].payload) \in given
                      /\ right(c.att[i].payload)

\* C3, reached: update_stats with a list of two different names and rate 2
\* has sent its two datagrams.
C3_Witness ==
    \E t \in Threads :
      LET c == call[t] IN
      /\ Finished(t) /\ c.op = "update_stats" /\ c.rate = 20 /\ NoTransportFailure(c)
      /\ c.stats.list /\ Len(c.stats.v) = 2 /\ c.stats.v[1] # c.stats.v[2]
      /\ c.val = -3 /\ Len(c.att) = 2

\* C4: in a batch of k entries sent with sample rate >= 1 on a socket that
\* was created, k sends are attempted whichever of them fail.
C4_AllAttempted ==
    \A t \in Threads :
      LET c == call[t] IN
      (Finished(t) /\ c.rate >= 10 /\ c.exc = "none")
      => Len(c.att) = Cardinality(DOMAIN c.data)

\* C5: in a single-threaded run, nested user scopes included, addr after a
\* Statsd client call has exited equals addr immediately before the call was
\* entered, whether the call returned, logged a transport failure or raised.
C5_ScopeRestores ==
    \A t \in Threads :
      (Finished(t) /\ call[t].kind = "client") => call[t].left = call[t].entry

\* C5, reached: inside a user scope a client call has raised KeyError out of
\* its with block, and addr is back at the scope's address.
C5_Witness ==
    \E t \in Threads :
      /\ Finished(t) /\ call[t].kind = "client" /\ call[t].exc = "KeyError"
      /\ stack # <<>>
      /\ call[t].entry # DefaultAddr
      /\ call[t].entry # call[t].dest
      /\ addr = call[t].entry

\* C6: a Statsd client bound to D has timing, gauge, increment, decrement
\* and update_stats, and every datagram of such a call is addressed to D.
C6_ClientHasFiveOps ==
    \A t \in Threads :
      (call[t].kind = "client" /\ call[t].op \in ApiOps)
      => /\ call[t].exc # "AttributeError"
         /\ \A i \in DOMAIN call[t].att : call[t].att[i].to = call[t].dest

\* the address a module-level sendto is meant to use: addr as it stood
\* before the client calls now in progress were entered
Default == IF ActiveClients = {} THEN addr ELSE hist.base

\* no two client calls have overlapped since addr was last undisturbed
OneClientAtMost == ActiveClients = {} \/ ~hist.overlap

\* thread t performs a sendto in this step
Sends(t) == pc[t] = "send" /\ Len(call'[t].att) = Len(call[t].att) + 1

\* C7: while one Statsd client call bound to D runs beside module-level
\* calls of other threads and the default is G, every datagram of a
\* module-level call is addressed to G and every datagram of the client call
\* to D.
C7_NoDisturbance ==
    [][\A t \in Threads :
         (Sends(t) /\ OneClientAtMost)
         => LET a == call'[t].att[Len(call'[t].att)] IN
            IF call[t].kind = "client" THEN a.to = call[t].dest ELSE a.to = Default]_vars

\* C7, amended: the client's datagrams are addressed to D; a module-level
\* datagram is addressed to G, except that it is addressed to D when its
\* sendto runs while the client call has its address installed.
C7_DisturbedWhileInstalled ==
    [][\A t \in Threads :
         (Sends(t) /\ OneClientAtMost)
         => LET a == call'[t].att[Len(call'[t].att)]
                installed == { u \in ActiveClients : pc[u] \in {"body", "send", "exit"} }
            IN
            IF call[t].kind = "client" THEN a.to = call[t].dest
            ELSE IF installed = {} THEN a.to = Default
            ELSE a.to \in { call[u].dest : u \in installed }]_vars

\* C7, reached: a module-level call has sent its datagram to the address of
\* the one client call in progress, not to the default.
C7_Witness ==
    \E t, u \in Threads :
      /\ call[t].kind = "module" /\ Len(call[t].att) = 1
      /\ u \in ActiveClients /\ ~hist.overlap
      /\ call[t].att[1].to = call[u].dest
      /\ call[t].att[1].to # hist.base
      /\ call[u].att # <<>> /\ call[u].att[1].to = call[u].dest

\* C8: with the default sample rate and no transport failure a single-name
\* module-level operation sends exactly one datagram <name>:<value>|<kind>
\* with no |@ suffix: increment 1|c, decrement -1|c, update_stats d|c,
\* gauge v|g, timing t|ms.
C8_SingleNamePayload ==
    \A t \in Threads :
      LET c == call[t] IN
      (Finished(t) /\ c.kind = "module" /\ c.op \in ApiOps /\ ~c.stats.list
         /\ c.rate = 10 /\ NoTransportFailure(c))
      => /\ Len(c.att) = 1
         /\ LET p == c.att[1].payload IN
            /\ WellFormed(p)
            /\ NamePart(p) = c.stats.v[1]
            /\ ParseInt(ValuePart(p)) =
                 (CASE c.op = "increment" -> 1 [] c.op = "decrement" -> -1 [] OTHER -> c.val)
            /\ SuffixPart(p) =
                 (CASE c.op = "timing" -> <<"m", "s">> [] c.op = "gauge" -> <<"g">>
                    [] OTHER -> <<"c">>)
            /\ (c.op = "increment" /\ c.stats.v[1] = <<"x">>)
                 => p = <<"x", ":", "1", "|", "c">>
            /\ (c.op = "decrement" /\ c.stats.v[1] = <<"x">>)
                 => p = <<"x", ":", "-", "1", "|", "c">>
            /\ (c.op = "timing" /\ c.stats.v[1] = <<"x">> /\ c.val = 250)
                 => p = <<"x", ":", "2", "5", "0", "|", "m", "s">>

\* C8, reached: gauge("a.b", -3) has sent a.b:-3|g.
C8_Witness ==
    \E t \in Threads :
      /\ Finished(t) /\ call[t].kind = "module" /\ call[t].op = "gauge"
      /\ call[t].rate = 10 /\ NoTransportFailure(call[t])
      /\ call[t].att # <<>>
      /\ call[t].att[1].payload = <<"a", ".", "b", ":", "-", "3", "|", "g">>

AllReturned == ActiveClients = {} /\ hist.base # None

\* C10: when client calls of two or more threads, bound to different
\* destinations, have overlapped and all returned, addr is what it was before
\* the first of them was entered.
C10_NoLastingChange ==
    (AllReturned /\ hist.overlap /\ Cardinality(hist.dests) >= 2) => addr = hist.base

\* C10, amended: once all the client calls have returned, addr is what it was
\* before the first was entered or the bound destination of one of them; it
\* is what it was before whenever the calls did not overlap.
C10_ChangeBounded ==
    AllReturned => /\ addr \in {hist.base} \cup hist.dests
                   /\ ~hist.overlap => addr = hist.base

\* C10, reached: two overlapping client calls have returned and left addr at
\* the destination of one of them.
C10_Witness ==
    /\ AllReturned /\ hist.overlap
    /\ \A t \in Threads : pc[t] = "idle"
    /\ addr \in hist.dests
    /\ addr # hist.base

=============================================================================
